---------------------------- MODULE Spec2Model ----------------------------
(***************************************************************************)
(* nunif/cli/convert_data.py: the crop/split functions of the tiler, the   *)
(* main program with the convert_data loop and its writer pool, and the    *)
(* two image loaders that the loop zips.                                   *)
(*                                                                         *)
(* An image is its shape [h, w]; a crop of it is the region                *)
(* [row, col, h, w]; the uncropped image is the region at the origin with  *)
(* the image's own size.                                                   *)
(***************************************************************************)
EXTENDS Integers, Sequences, FiniteSets, TLC

VARIABLES
    tx, ty,          \* tiler: the two images handed to the function
    tmax, tstep,     \* tiler: max_size, and split_step in quarters
    top,             \* tiler: the function that was applied ("none" before)
    tres,            \* tiler: what it returned or raised
    pc,              \* main: where the program is
    args,            \* main: the parsed command line
    target, input,   \* main: the --target and --input collections (input may be None)
    y_data, x_data,  \* main: the key -> source mappings, in insertion order
    data, has_x,     \* main: the validated pairs handed to convert_data
    err,             \* main: the exception that ended the run, or NoError
    odirs,           \* convert_data: the state of the output directories x and y
    y_files, x_files,\* convert_data: the loaders' file lists
    pos, xpos,       \* convert_data: the place in y_files and x_files of the last items taken
    cur,             \* convert_data: (x_im, x_meta), (y_im, y_meta) of the iteration
    stdout,          \* convert_data: the file names written as skipped
    pool_tasks,      \* pool: every task submitted, in order (the work queue)
    pool_started,    \* pool: how many of them a worker has taken
    pool_running,    \* pool: the indices of the tasks being run
    written,         \* the output files saved
    x_queue, y_queue,\* loaders: the decoded items waiting in each loader's queue
    x_fed, y_fed,    \* loaders: how many files each loader's thread has decoded
    zip_at,          \* loaders: the loader zip takes from next
    taken            \* loaders: the pairs zip has handed to the loop

tvars == <<tx, ty, tmax, tstep, top, tres>>

mvars == <<pc, args, target, input, y_data, x_data, data, has_x, err>>

cvars == <<odirs, y_files, x_files, pos, xpos, cur, stdout>>

pvars == <<pool_tasks, pool_started, pool_running, written>>

lvars == <<x_queue, y_queue, x_fed, y_fed, zip_at, taken>>

vars == <<tvars, mvars, cvars, pvars, lvars>>

----------------------------------------------------------------------------
(* Bounds of the tiler's inputs. *)

MaxDim == 4

MaxSize == 5

MaxStep == 4

(* Bounds of the pipeline: the pairs handed to convert_data, the files of  *)
(* a collection, the pool's worker threads.                                 *)

NumPairs == 3

NumFiles == 34

MaxFiles == 2

MaxWorkers == 2

----------------------------------------------------------------------------
(* Arithmetic of the tiler. *)

Min(a, b) == IF a <= b THEN a ELSE b

Abs(a) == IF a < 0 THEN 0 - a ELSE a

(* Python floats are IEEE-754 binary64.  For integers m, a, b the value     *)
(* int(m * (a / b)) is floor(m*a / b) except where m*a/b is an integer n    *)
(* and the rounded product is just below n; then it is n - 1.  These are    *)
(* the triples <<m, a, b>> among the arguments the inputs of this model     *)
(* produce where that happens (49 * (1/49) = 0.9999999999999999).           *)
MulShort == {<<49, 1, 49>>}

(* Likewise int(m / (a / b)) is floor(m*b / a) except for these triples     *)
(* (9 / (18/28) = 13.999999999999998).                                      *)
DivShort == {<<9, 18, 28>>, <<18, 18, 28>>}

(* int(m * scale) with scale = a / b *)
IntMulScale(m, a, b) ==
    IF <<m, a, b>> \in MulShort THEN ((m * a) \div b) - 1 ELSE (m * a) \div b

(* int(m / scale) with scale = a / b *)
IntDivScale(m, a, b) ==
    IF <<m, a, b>> \in DivShort THEN ((m * b) \div a) - 1 ELSE (m * b) \div a

(* scale_w - scale_h > 0.00001: the comparison without abs() *)
ScaleMismatchNoAbs(xh, xw, yh, yw) ==
    xw * yh - xh * yw > (yh * yw) \div 100000

(* abs(scale_w - scale_h) > 0.00001 with scale_h = xh / yh and              *)
(* scale_w = xw / yw: |xw*yh - xh*yw| / (yh*yw) > 1/100000.  For integers   *)
(* d * 100000 > p is d > p \div 100000, which keeps the products small.     *)
ScaleMismatch(xh, xw, yh, yw) ==
    Abs(xw * yh - xh * yw) > (yh * yw) \div 100000

(* int(crop * split_step); split_step is a multiple of 1/4, exact in        *)
(* binary64.                                                                *)
IntStep(crop, split_step) == (crop * split_step) \div 4

Image(h, w) == [h |-> h, w |-> w]

(* NF.crop(x, i, j, h, w) and NF.crop_ref(x, i, j, h, w) *)
crop(i, j, h, w) == [row |-> i, col |-> j, h |-> h, w |-> w]

(* the image itself, returned uncropped *)
Whole(x) == crop(0, 0, x.h, x.w)

Returned(xs, ys) == [status |-> "ok", x |-> xs, y |-> ys]

Raised(e) == [status |-> e, x |-> <<>>, y |-> <<>>]

----------------------------------------------------------------------------
(* The four functions. *)

crop_max(x, max_size) ==
    LET lh == Min(x.h, max_size)
        lw == Min(x.w, max_size)
    IN  IF lh # x.h \/ lw # x.w THEN crop(0, 0, lh, lw) ELSE Whole(x)

(* _pair_crop_max with max_size applied to the low-resolution side as it   *)
(* stands, not scaled down by scale_h                                       *)
pair_crop_max_lr_unscaled(x, y, max_size) ==
    IF ScaleMismatch(x.h, x.w, y.h, y.w) THEN Raised("ScaleMismatch")
    ELSE
    LET lr_max_size == max_size
        lxh == Min(x.h, lr_max_size)
        lxw == Min(x.w, lr_max_size)
        lyh == IntDivScale(lxh, x.h, y.h)
        lyw == IntDivScale(lxw, x.w, y.w)
    IN  IF lxh # x.h \/ lxw # x.w
        THEN IF lxh = IntMulScale(lyh, x.h, y.h) /\ lxw = IntMulScale(lyw, x.w, y.w)
             THEN Returned(<<crop(0, 0, lxh, lxw)>>, <<crop(0, 0, lyh, lyw)>>)
             ELSE Raised("AssertionError")
        ELSE Returned(<<Whole(x)>>, <<Whole(y)>>)

(* x is the low-resolution side.  The result carries x's crop in .x and    *)
(* y's crop in .y.                                                          *)
pair_crop_max_lr(x, y, max_size) ==
    IF ScaleMismatch(x.h, x.w, y.h, y.w) THEN Raised("ScaleMismatch")
    ELSE
    LET lr_max_size == IntMulScale(max_size, x.h, y.h)
        lxh == Min(x.h, lr_max_size)
        lxw == Min(x.w, lr_max_size)
        lyh == IntDivScale(lxh, x.h, y.h)
        lyw == IntDivScale(lxw, x.w, y.w)
    IN  IF lxh # x.h \/ lxw # x.w
        THEN IF lxh = IntMulScale(lyh, x.h, y.h) /\ lxw = IntMulScale(lyw, x.w, y.w)
             THEN Returned(<<crop(0, 0, lxh, lxw)>>, <<crop(0, 0, lyh, lyw)>>)
             ELSE Raised("AssertionError")
        ELSE Returned(<<Whole(x)>>, <<Whole(y)>>)

Swap(r) == [status |-> r.status, x |-> r.y, y |-> r.x]

pair_crop_max(x, y, max_size) ==
    IF x.h <= y.h THEN pair_crop_max_lr(x, y, max_size)
    ELSE Swap(pair_crop_max_lr(y, x, max_size))

(* for i in range(0, stop, step), step > 0, from i on *)
RECURSIVE range(_, _, _)
range(i, stop, step) ==
    IF i >= stop THEN <<>> ELSE <<i>> \o range(i + step, stop, step)

(* for i in range(0, h - crop_h + 1, step_h):                               *)
(*     for j in range(0, w - crop_w + 1, step_w):  the <<i, j>> visited,    *)
(* in order, from row i on                                                  *)
RECURSIVE split_loop(_, _, _, _, _)
split_loop(i, stop_h, stop_w, step_h, step_w) ==
    IF i >= stop_h THEN <<>>
    ELSE LET js == range(0, stop_w, step_w)
         IN  [k \in 1..Len(js) |-> <<i, js[k]>>]
                 \o split_loop(i + step_h, stop_h, stop_w, step_h, step_w)

(* split_image with the loops stopping one short: range(0, h - crop_h, ..) *)
split_image_short(x, max_size, step_rate) ==
    IF x.h > max_size \/ x.w > max_size
    THEN LET crop_h == Min(x.h, max_size)
             crop_w == Min(x.w, max_size)
             step_h == IntStep(crop_h, step_rate)
             step_w == IntStep(crop_w, step_rate)
             at == split_loop(0, x.h - crop_h, x.w - crop_w, step_h, step_w)
         IN  IF step_h = 0 \/ step_w = 0
             THEN Raised("ZeroStep")
             ELSE Returned(<<>>, [k \in 1..Len(at) |-> crop(at[k][1], at[k][2], crop_h, crop_w)])
    ELSE Returned(<<>>, <<Whole(x)>>)

split_image(x, max_size, step_rate) ==
    IF x.h > max_size \/ x.w > max_size
    THEN LET crop_h == Min(x.h, max_size)
             crop_w == Min(x.w, max_size)
             step_h == IntStep(crop_h, step_rate)
             step_w == IntStep(crop_w, step_rate)
             at == split_loop(0, x.h - crop_h + 1, x.w - crop_w + 1, step_h, step_w)
         IN  IF step_h = 0 \/ step_w = 0
             THEN Raised("ZeroStep")   \* range() arg 3 must not be zero
             ELSE Returned(<<>>, [k \in 1..Len(at) |-> crop(at[k][1], at[k][2], crop_h, crop_w)])
    ELSE Returned(<<>>, <<Whole(x)>>)

(* the assertion compiled away (python -O) *)
AlignedUnchecked(i, j, crop_h, crop_w, x, y) == TRUE

(* the assertion in the loop body of _pair_split_image *)
Aligned(i, j, crop_h, crop_w, x, y) ==
    /\ i = IntMulScale(IntDivScale(i, x.h, y.h), x.h, y.h)
    /\ j = IntMulScale(IntDivScale(j, x.w, y.w), x.w, y.w)
    /\ crop_h = IntMulScale(IntDivScale(crop_h, x.h, y.h), x.h, y.h)
    /\ crop_w = IntMulScale(IntDivScale(crop_w, x.w, y.w), x.w, y.w)

(* x is the low-resolution side *)
pair_split_image_lr(x, y, max_size, split_step) ==
    IF ScaleMismatch(x.h, x.w, y.h, y.w) THEN Raised("ScaleMismatch")
    ELSE
    LET lr_max_size == IntMulScale(max_size, x.h, y.h)
        lxh == Min(x.h, lr_max_size)
        lxw == Min(x.w, lr_max_size)
        crop_h == Min(x.h, lr_max_size)
        crop_w == Min(x.w, lr_max_size)
        step_h == IntStep(crop_h, split_step)
        step_w == IntStep(crop_w, split_step)
        at == split_loop(0, x.h - crop_h + 1, x.w - crop_w + 1, step_h, step_w)
    IN  IF x.h # lxh \/ x.w # lxw
        THEN IF step_h = 0 \/ step_w = 0
             THEN Raised("ZeroStep")   \* range() arg 3 must not be zero
             ELSE IF \E k \in 1..Len(at) : ~Aligned(at[k][1], at[k][2], crop_h, crop_w, x, y)
             THEN Raised("AssertionError")
             ELSE Returned(
                    [k \in 1..Len(at) |-> crop(at[k][1], at[k][2], crop_h, crop_w)],
                    [k \in 1..Len(at) |->
                        crop(IntDivScale(at[k][1], x.h, y.h), IntDivScale(at[k][2], x.w, y.w),
                             IntDivScale(crop_h, x.h, y.h), IntDivScale(crop_w, x.w, y.w))])
        ELSE Returned(<<Whole(x)>>, <<Whole(y)>>)

pair_split_image(x, y, max_size, split_step) ==
    IF x.h <= y.h THEN pair_split_image_lr(x, y, max_size, split_step)
    ELSE Swap(pair_split_image_lr(y, x, max_size, split_step))

----------------------------------------------------------------------------
(* Collections and keys. *)

None == [none |-> TRUE]

NoError == [kind |-> "none"]

Exts == {"png", "jpg"}

MainKeys == {1, 2}

(* a source path: the file's base name (its key) and its extension *)
Path(key, ext) == [key |-> key, ext |-> ext]

Paths == {Path(k, e) : k \in MainKeys, e \in Exts}

(* filename2key(src): the file name without directory and extension *)
filename2key(src) == src.key

IsInjective(f) == \A i \in DOMAIN f, j \in DOMAIN f : f[i] = f[j] => i = j

(* the files of a directory, or the rows of a list file: up to MaxFiles    *)
(* distinct paths in any order                                              *)
Listings ==
    UNION { {f \in [1..n -> Paths] : IsInjective(f)} : n \in 0..MaxFiles }

Collections == {[kind |-> k, files |-> f] : k \in {"dir", "csv"}, f \in Listings}

HasKey(d, key) == \E i \in 1..Len(d) : d[i].key = key

Lookup(d, key) == d[CHOOSE i \in 1..Len(d) : d[i].key = key]

(* data[key] = {"src": src, "options": ...}: a new key goes last, a key     *)
(* already there keeps its place and gets the new source                    *)
Store(d, key, src) ==
    IF HasKey(d, key)
    THEN [i \in 1..Len(d) |-> IF d[i].key = key THEN [key |-> key, src |-> src] ELSE d[i]]
    ELSE Append(d, [key |-> key, src |-> src])

(* for src in files: data[filename2key(src)] = ..., from file n on *)
RECURSIVE load_loop(_, _, _)
load_loop(d, files, n) ==
    IF n > Len(files) THEN d
    ELSE load_loop(Store(d, filename2key(files[n]), files[n]), files, n + 1)

load_files_from_dir(files) ==
    [status |-> "ok", data |-> load_loop(<<>>, files, 1)]

(* csv.reader yields lists: row.values raises AttributeError on the first  *)
(* row                                                                      *)
load_files_from_csv(rows) ==
    IF Len(rows) = 0
    THEN [status |-> "ok", data |-> <<>>]
    ELSE [status |-> "AttributeError", data |-> <<>>]

load_files(c) ==
    IF c.kind = "dir" THEN load_files_from_dir(c.files) ELSE load_files_from_csv(c.files)

(* sorted(keys) *)
RECURSIVE sorted(_)
sorted(keys) ==
    IF keys = {} THEN <<>>
    ELSE LET k == CHOOSE k \in keys : \A l \in keys : k <= l
         IN  <<k>> \o sorted(keys \ {k})

----------------------------------------------------------------------------
(* Arguments. *)

Args(max_size, split, split_step, pad_x, pad_y) ==
    [max_size |-> max_size, split_image |-> split, split_step |-> split_step,
     pad_x |-> pad_x, pad_y |-> pad_y]

(* the checks of main on the parsed arguments *)
ArgsError(a, inp) ==
    IF a.split_image /\ ~(a.max_size > 0) THEN "ValueError"
    ELSE IF (a.pad_x > 0 \/ a.pad_y > 0) /\ a.max_size > 0 THEN "ValueError"
    ELSE IF inp = None /\ a.pad_x > 0 THEN "ValueError"
    ELSE "none"

(* command lines main is run with: the defaults, a split, and two that     *)
(* main refuses                                                             *)
MainArgs ==
    { Args(0, FALSE, 2, 0, 0), Args(4, TRUE, 4, 0, 0),
      Args(0, TRUE, 2, 0, 0), Args(4, FALSE, 2, 1, 0) }

(* arguments convert_data is called with *)
PipeArgs ==
    { Args(0, FALSE, 2, 0, 0), Args(0, FALSE, 2, 1, 1),
      Args(4, FALSE, 2, 0, 0), Args(4, TRUE, 4, 0, 0) }

----------------------------------------------------------------------------
(* The body of the loop of convert_data. *)

(* what the loaders decode: the low-res and high-res images of a pair, an  *)
(* anisotropic pair, and a pair at ratio 5/3                                *)
DecodedPairs ==
    { [x |-> Image(2, 4), y |-> Image(4, 8)],
      [x |-> Image(2, 2), y |-> Image(4, 6)],
      [x |-> Image(3, 3), y |-> Image(5, 5)] }

Meta(filename, alpha) == [filename |-> filename, alpha |-> alpha]

(* NF.pad(x, (pad,) * 4): pad pixels on every side *)
pad(x, p) == IF p > 0 THEN Image(x.h + 2 * p, x.w + 2 * p) ELSE x

(* "alpha" in x_meta, without the test: the input side is never skipped *)
HasAlphaIgnored(meta) == FALSE

(* "alpha" in y_meta, "alpha" in x_meta *)
HasAlpha(meta) == meta.alpha

(* make_output_name(filename, no): the key, and the number when no >= 0 *)
make_output_name(filename, no) == [basename |-> filename2key(filename), no |-> no]

(* pool.submit(save_image_task, im, path.join(dir, name)) *)
Task(im, dir, name) == [im |-> im, dir |-> dir, name |-> name]

Submitted(tasks) == [status |-> "ok", tasks |-> tasks, skipped |-> <<>>]

Skipped(filename) == [status |-> "ok", tasks |-> <<>>, skipped |-> <<filename>>]

Failed(e) == [status |-> e, tasks |-> <<>>, skipped |-> <<>>]

(* for x, y in zip(xs, ys): submit x as no, submit y as no; no += 1 *)
PairTasks(xs, ys, x_meta, y_meta) ==
    [k \in 1..(2 * Min(Len(xs), Len(ys))) |->
        IF k % 2 = 1
        THEN Task(xs[(k + 1) \div 2], "x", make_output_name(x_meta.filename, (k - 1) \div 2))
        ELSE Task(ys[k \div 2], "y", make_output_name(y_meta.filename, (k - 2) \div 2))]

(* the branch of the loop body for a pair *)
convert_pair(x_im, x_meta, y_im, y_meta, a) ==
    IF filename2key(x_meta.filename) # filename2key(y_meta.filename)
    THEN Failed("KeyMismatch")
    ELSE IF HasAlpha(x_meta) THEN Skipped(x_meta.filename)
    ELSE
    LET x == pad(x_im, a.pad_x)
        y == pad(y_im, a.pad_y)
        s == pair_split_image(x, y, a.max_size, a.split_step)
        c == pair_crop_max(x, y, a.max_size)
    IN  IF a.max_size > 0
        THEN IF a.split_image
             THEN IF s.status = "ok"
                  THEN Submitted(PairTasks(s.x, s.y, x_meta, y_meta))
                  ELSE Failed(s.status)
             ELSE IF c.status = "ok"
                  THEN Submitted(<<Task(c.x[1], "x", make_output_name(x_meta.filename, -1)),
                                   Task(c.y[1], "y", make_output_name(y_meta.filename, -1))>>)
                  ELSE Failed(c.status)
        ELSE Submitted(<<Task(Whole(x), "x", make_output_name(x_meta.filename, -1)),
                         Task(Whole(y), "y", make_output_name(y_meta.filename, -1))>>)

(* the branch of the loop body for a target image alone *)
convert_single(y_im, y_meta, a) ==
    LET y == pad(y_im, a.pad_y)
        s == split_image(y, a.max_size, a.split_step)
    IN  IF a.max_size > 0
        THEN IF a.split_image
             THEN IF s.status = "ok"
                  THEN Submitted([k \in 1..Len(s.y) |->
                           Task(s.y[k], "y", make_output_name(y_meta.filename, k - 1))])
                  ELSE Failed(s.status)
             ELSE Submitted(<<Task(crop_max(y, a.max_size), "y",
                                   make_output_name(y_meta.filename, -1))>>)
        ELSE Submitted(<<Task(Whole(y), "y", make_output_name(y_meta.filename, -1))>>)

(* one iteration of the loop: x_im is None without an input collection *)
loop_body(x_im, x_meta, y_im, y_meta, a) ==
    IF HasAlpha(y_meta) THEN Skipped(y_meta.filename)
    ELSE IF x_im # None THEN convert_pair(x_im, x_meta, y_im, y_meta, a)
    ELSE convert_single(y_im, y_meta, a)

(* the exit of "with PoolExecutor() as pool" without the wait *)
PoolDrainedNoWait == TRUE

(* the exit of "with PoolExecutor() as pool": shutdown(wait=True) returns  *)
(* when every submitted task has run                                        *)
PoolDrained == pool_started = Len(pool_tasks) /\ pool_running = {}

----------------------------------------------------------------------------
(* The parts of the state a specification leaves alone. *)

TilerIdle ==
    /\ tx = Image(1, 1) /\ ty = Image(1, 1)
    /\ tmax = 1 /\ tstep = 0
    /\ top = "idle" /\ tres = [status |-> "none", x |-> <<>>, y |-> <<>>]

MainIdle ==
    /\ pc = "idle" /\ args = Args(0, FALSE, 2, 0, 0)
    /\ target = None /\ input = None
    /\ y_data = <<>> /\ x_data = <<>> /\ data = <<>> /\ has_x = FALSE
    /\ err = NoError

ConvertIdle ==
    /\ odirs = [d \in {"x", "y"} |-> "absent"]
    /\ y_files = <<>> /\ x_files = <<>>
    /\ pos = 0 /\ xpos = 0 /\ cur = None /\ stdout = <<>>

PoolIdle ==
    /\ pool_tasks = <<>> /\ pool_started = 0 /\ pool_running = {}
    /\ written = {}

LoaderIdle ==
    /\ x_queue = <<>> /\ y_queue = <<>>
    /\ x_fed = 0 /\ y_fed = 0
    /\ zip_at = "x" /\ taken = 0

----------------------------------------------------------------------------
(* The tiler's inputs: every pair of small images with every small         *)
(* max_size and split_step, and the named cases.                            *)

SmallImages == {Image(h, w) : h \in 1..MaxDim, w \in 1..MaxDim}

TilerCase(xh, xw, yh, yw, max_size, split_step) ==
    [x |-> Image(xh, xw), y |-> Image(yh, yw), max_size |-> max_size, split_step |-> split_step]

NamedCases ==
    { TilerCase(256, 256, 1024, 1024, 128, 2),   \* ratio 4, max_size 128
      TilerCase(1024, 1024, 256, 256, 128, 2),   \* the same, x the larger
      TilerCase(300, 300, 300, 300, 100, 2),     \* 300x300 split at 100, step 0.5
      TilerCase(1000, 1000, 1000, 1000, 400, 2), \* 1000x1000 cropped at 400
      TilerCase(1, 1, 317, 318, 1000, 2),        \* scales 1/317 and 1/318
      TilerCase(1, 1, 49, 49, 49, 2),            \* 49 * (1/49) < 1
      TilerCase(18, 18, 28, 28, 14, 4) }         \* 9 / (18/28) < 14

TilerCases ==
    { [x |-> x, y |-> y, max_size |-> m, split_step |-> s] :
        x \in SmallImages, y \in SmallImages, m \in 1..MaxSize, s \in 0..MaxStep }
    \cup NamedCases

NoResult == [status |-> "none", x |-> <<>>, y |-> <<>>]

TilerInit ==
    /\ \E c \in TilerCases :
        /\ tx = c.x
        /\ ty = c.y
        /\ tmax = c.max_size
        /\ tstep = c.split_step
    /\ top = "none"
    /\ tres = NoResult
    /\ MainIdle /\ ConvertIdle /\ PoolIdle /\ LoaderIdle

CropMax ==
    /\ top = "none"
    /\ top' = "crop_max"
    /\ tres' = Returned(<<>>, <<crop_max(ty, tmax)>>)
    /\ UNCHANGED <<tx, ty, tmax, tstep>>
    /\ UNCHANGED <<mvars, cvars, pvars, lvars>>

PairCropMax ==
    /\ top = "none"
    /\ top' = "pair_crop_max"
    /\ tres' = pair_crop_max(tx, ty, tmax)
    /\ UNCHANGED <<tx, ty, tmax, tstep>>
    /\ UNCHANGED <<mvars, cvars, pvars, lvars>>

SplitImage ==
    /\ top = "none"
    /\ top' = "split_image"
    /\ tres' = split_image(ty, tmax, tstep)
    /\ UNCHANGED <<tx, ty, tmax, tstep>>
    /\ UNCHANGED <<mvars, cvars, pvars, lvars>>

PairSplitImage ==
    /\ top = "none"
    /\ top' = "pair_split_image"
    /\ tres' = pair_split_image(tx, ty, tmax, tstep)
    /\ UNCHANGED <<tx, ty, tmax, tstep>>
    /\ UNCHANGED <<mvars, cvars, pvars, lvars>>

TilerNext == CropMax \/ PairCropMax \/ SplitImage \/ PairSplitImage

SpecTiler == TilerInit /\ [][TilerNext]_vars


----------------------------------------------------------------------------
(* main and convert_data. *)

MainInit ==
    /\ pc = "main"
    /\ args \in MainArgs
    /\ target \in Collections
    /\ input \in Collections \cup {None}
    /\ y_data = <<>> /\ x_data = <<>> /\ data = <<>> /\ has_x = FALSE
    /\ err = NoError
    /\ \E before \in {"absent", "stale"} : odirs = [d \in {"x", "y"} |-> before]
    /\ y_files = <<>> /\ x_files = <<>>
    /\ pos = 0 /\ xpos = 0 /\ cur = None /\ stdout = <<>>
    /\ PoolIdle
    /\ TilerIdle /\ LoaderIdle

Raise(e) ==
    /\ pc' = "done"
    /\ err' = e

(* main: the checks of the arguments *)
CheckArgs ==
    /\ pc = "main"
    /\ IF ArgsError(args, input) = "none"
       THEN pc' = "load_target" /\ err' = err
       ELSE Raise([kind |-> ArgsError(args, input)])
    /\ UNCHANGED <<args, target, input, y_data, x_data, data, has_x>>
    /\ UNCHANGED <<lvars, tvars, cvars, pvars>>

(* main: y_data = load_files_from_dir/csv(args.target) *)
LoadTarget ==
    /\ pc = "load_target"
    /\ LET r == load_files(target)
       IN  IF r.status = "ok"
           THEN y_data' = r.data /\ err' = err
                /\ pc' = IF input = None THEN "pair_up" ELSE "load_input"
           ELSE Raise([kind |-> r.status]) /\ y_data' = y_data
    /\ UNCHANGED <<args, target, input, x_data, data, has_x>>
    /\ UNCHANGED <<lvars, tvars, cvars, pvars>>

(* main: x_data = load_files_from_dir/csv(args.input) *)
LoadInput ==
    /\ pc = "load_input"
    /\ LET r == load_files(input)
       IN  IF r.status = "ok"
           THEN x_data' = r.data /\ err' = err /\ pc' = "pair_up"
           ELSE Raise([kind |-> r.status]) /\ x_data' = x_data
    /\ UNCHANGED <<args, target, input, y_data, data, has_x>>
    /\ UNCHANGED <<lvars, tvars, cvars, pvars>>

(* main: "# validate": every key of y_data must be in x_data; the first    *)
(* one that is not is reported.  Without --input, data holds the targets.   *)
PairUp ==
    /\ pc = "pair_up"
    /\ IF input = None
       THEN /\ data' = [i \in 1..Len(y_data) |->
                           [key |-> y_data[i].key, x |-> None, y |-> y_data[i].src]]
            /\ has_x' = FALSE
            /\ pc' = "convert_data" /\ err' = err
       ELSE LET missing == {i \in 1..Len(y_data) : ~HasKey(x_data, y_data[i].key)}
                first == CHOOSE i \in missing : \A j \in missing : i <= j
            IN  IF missing = {}
                THEN /\ data' = [i \in 1..Len(y_data) |->
                                    [key |-> y_data[i].key,
                                     x |-> Lookup(x_data, y_data[i].key).src,
                                     y |-> y_data[i].src]]
                     /\ has_x' = TRUE
                     /\ pc' = "convert_data" /\ err' = err
                ELSE /\ Raise([kind |-> "RuntimeError", key |-> y_data[first].key])
                     /\ UNCHANGED <<data, has_x>>
    /\ UNCHANGED <<args, target, input, y_data, x_data>>
    /\ UNCHANGED <<lvars, tvars, cvars, pvars>>

(* convert_data up to the loop: the output directories are removed and     *)
(* made again (x only with an input collection), the loaders get the       *)
(* sources in sorted key order, the pool is created.                        *)
ConvertDataStart ==
    /\ pc = "convert_data"
    /\ odirs' = [d \in {"x", "y"} |-> IF d = "y" \/ has_x THEN "fresh" ELSE "absent"]
    /\ LET keys == sorted({data[i].key : i \in 1..Len(data)})
           entry(k) == data[CHOOSE i \in 1..Len(data) : data[i].key = k]
       IN  /\ y_files' = [n \in 1..Len(keys) |-> entry(keys[n]).y]
           /\ x_files' = IF has_x THEN [n \in 1..Len(keys) |-> entry(keys[n]).x] ELSE <<>>
    /\ pc' = "loop"
    /\ UNCHANGED <<pos, xpos, cur, stdout>>
    /\ UNCHANGED <<args, target, input, y_data, x_data, data, has_x, err>>
    /\ UNCHANGED <<lvars, tvars, pvars>>

(* the places in files a loader that has delivered up to place n may       *)
(* deliver next: the files in the order of the list, without those it      *)
(* could not decode                                                         *)
NextItems(files, n) == (n + 1)..Len(files)

(* one iteration: zip takes the next item of the x loader and then of the  *)
(* y loader (what a loader decodes, and whether it has an alpha channel,   *)
(* are the loader's), then the body runs.                                   *)
LoopIteration ==
    /\ pc = "loop"
    /\ \E im \in DecodedPairs, y_alpha \in BOOLEAN, x_alpha \in BOOLEAN,
          yn \in NextItems(y_files, pos),
          xn \in (IF has_x THEN NextItems(x_files, xpos) ELSE {0}) :
         LET y_meta == Meta(y_files[yn], y_alpha)
             x_meta == IF has_x THEN Meta(x_files[xn], x_alpha) ELSE None
             x_im == IF has_x THEN im.x ELSE None
             r == loop_body(x_im, x_meta, im.y, y_meta, args)
         IN  /\ (~has_x => ~x_alpha)
             /\ cur' = [x_im |-> x_im, x_meta |-> x_meta, y_im |-> im.y, y_meta |-> y_meta]
             /\ pos' = yn
             /\ xpos' = xn
             /\ pool_tasks' = pool_tasks \o r.tasks
             /\ stdout' = stdout \o r.skipped
             /\ IF r.status = "ok"
                THEN pc' = "loop" /\ err' = err
                ELSE pc' = "exit" /\ err' = [kind |-> r.status]
    /\ UNCHANGED <<odirs, y_files, x_files>>
    /\ UNCHANGED <<args, target, input, y_data, x_data, data, has_x>>
    /\ UNCHANGED <<pool_started, pool_running, written>>
    /\ UNCHANGED <<lvars, tvars>>

(* zip is exhausted (of the files left, if any, a loader decodes none):     *)
(* the with block is left                                                   *)
LoopEnd ==
    /\ pc = "loop"
    /\ pc' = "exit"
    /\ UNCHANGED <<args, target, input, y_data, x_data, data, has_x, err>>
    /\ UNCHANGED <<lvars, tvars, cvars, pvars>>

(* the pool's __exit__, then convert_data returns or the exception goes on *)
PoolExit ==
    /\ pc = "exit"
    /\ PoolDrained
    /\ pc' = "done"
    /\ UNCHANGED <<args, target, input, y_data, x_data, data, has_x, err>>
    /\ UNCHANGED <<lvars, tvars, cvars, pvars>>

(* a worker thread takes the next task of the work queue *)
WorkerTake ==
    /\ pool_started < Len(pool_tasks)
    /\ Cardinality(pool_running) < MaxWorkers
    /\ pool_started' = pool_started + 1
    /\ pool_running' = pool_running \cup {pool_started + 1}
    /\ UNCHANGED <<pool_tasks, written>>
    /\ UNCHANGED <<lvars, tvars, mvars, cvars>>

(* save_image_task(im, output_path) ends: the file is there *)
WorkerDone ==
    /\ \E n \in pool_running :
        /\ pool_running' = pool_running \ {n}
        /\ written' = written \cup {[dir |-> pool_tasks[n].dir, name |-> pool_tasks[n].name]}
    /\ UNCHANGED <<pool_tasks, pool_started>>
    /\ UNCHANGED <<lvars, tvars, mvars, cvars>>

ConvertData == ConvertDataStart \/ LoopIteration \/ LoopEnd \/ PoolExit \/ WorkerTake \/ WorkerDone

Next == CheckArgs \/ LoadTarget \/ LoadInput \/ PairUp \/ ConvertData

Spec == MainInit /\ [][Next]_vars

(* convert_data(data, has_x, args) called with NumPairs pairs *)
PipeInit ==
    /\ pc = "convert_data"
    /\ args \in PipeArgs
    /\ target = None /\ input = None
    /\ y_data = <<>> /\ x_data = <<>>
    /\ has_x \in BOOLEAN
    /\ data = [i \in 1..NumPairs |->
                 [key |-> NumPairs + 1 - i,
                  x |-> IF has_x THEN Path(NumPairs + 1 - i, "jpg") ELSE None,
                  y |-> Path(NumPairs + 1 - i, "png")]]
    /\ err = NoError
    /\ odirs = [d \in {"x", "y"} |-> "stale"]
    /\ y_files = <<>> /\ x_files = <<>>
    /\ pos = 0 /\ xpos = 0 /\ cur = None /\ stdout = <<>>
    /\ PoolIdle
    /\ TilerIdle /\ LoaderIdle

SpecPipe == PipeInit /\ [][ConvertData]_vars

----------------------------------------------------------------------------
(* The two loaders of a paired run and the zip over them. *)

(* ImageLoader(files=..., max_queue_size=32) *)
max_queue_size == 32

(* queue.put blocks while the queue holds max_queue_size items *)
Full(q) == Len(q) >= max_queue_size

(* queue.get blocks while the queue is empty *)
Empty(q) == Len(q) = 0

(* both loaders get the same sorted key list: file n of each has key n *)
LoaderInit ==
    /\ x_queue = <<>> /\ y_queue = <<>>
    /\ x_fed = 0 /\ y_fed = 0
    /\ zip_at = "x" /\ taken = 0
    /\ TilerIdle /\ MainIdle /\ ConvertIdle /\ PoolIdle

CanPutX == x_fed < NumFiles /\ ~Full(x_queue)

CanPutY == y_fed < NumFiles /\ ~Full(y_queue)

(* next() of a loader that never hands an item over *)
CanGetNever == FALSE

(* next() of the loader zip is at returns when its queue has an item *)
CanGet == IF zip_at = "x" THEN ~Empty(x_queue) ELSE ~Empty(y_queue)

(* the x loader's thread decodes its next file and puts it in its queue *)
PutX ==
    /\ CanPutX
    /\ x_fed' = x_fed + 1
    /\ x_queue' = Append(x_queue, x_fed + 1)
    /\ UNCHANGED <<y_queue, y_fed, zip_at, taken>>
    /\ UNCHANGED <<tvars, mvars, cvars, pvars>>

(* the y loader's thread decodes its next file and puts it in its queue *)
PutY ==
    /\ CanPutY
    /\ y_fed' = y_fed + 1
    /\ y_queue' = Append(y_queue, y_fed + 1)
    /\ UNCHANGED <<x_queue, x_fed, zip_at, taken>>
    /\ UNCHANGED <<tvars, mvars, cvars, pvars>>

(* zip(x_loader, y_loader): next(x_loader) *)
GetX ==
    /\ zip_at = "x"
    /\ CanGet
    /\ x_queue' = Tail(x_queue)
    /\ zip_at' = "y"
    /\ UNCHANGED <<y_queue, x_fed, y_fed, taken>>
    /\ UNCHANGED <<tvars, mvars, cvars, pvars>>

(* zip(x_loader, y_loader): next(y_loader), and the pair goes to the loop *)
GetY ==
    /\ zip_at = "y"
    /\ CanGet
    /\ y_queue' = Tail(y_queue)
    /\ zip_at' = "x"
    /\ taken' = taken + 1
    /\ UNCHANGED <<x_queue, x_fed, y_fed>>
    /\ UNCHANGED <<tvars, mvars, cvars, pvars>>

LoaderNext == PutX \/ PutY \/ GetX \/ GetY

SpecLoader == LoaderInit /\ [][LoaderNext]_vars

----------------------------------------------------------------------------
(* Properties of the tiler. *)

XIsLow == tx.h <= ty.h

LowImage == IF XIsLow THEN tx ELSE ty

HighImage == IF XIsLow THEN ty ELSE tx

LowTiles == IF XIsLow THEN tres.x ELSE tres.y

HighTiles == IF XIsLow THEN tres.y ELSE tres.x

PairReturned(f) == top = f /\ tres.status = "ok"

(* hi = lo * (n / d), for integers *)
ScaledBy(hi, lo, n, d) == hi * d = lo * n

(* C1 as stated: when pair_split_image returns, the two sequences have the *)
(* same length and every high-res tile's row, column, height and width is  *)
(* the low-res tile's multiplied by r = highRes.h / lowRes.h.              *)
C1_ScaledByHeightRatio ==
    PairReturned("pair_split_image") =>
        /\ Len(tres.x) = Len(tres.y)
        /\ \A i \in 1..Len(LowTiles) :
            /\ ScaledBy(HighTiles[i].row, LowTiles[i].row, HighImage.h, LowImage.h)
            /\ ScaledBy(HighTiles[i].col, LowTiles[i].col, HighImage.h, LowImage.h)
            /\ ScaledBy(HighTiles[i].h, LowTiles[i].h, HighImage.h, LowImage.h)
            /\ ScaledBy(HighTiles[i].w, LowTiles[i].w, HighImage.h, LowImage.h)

(* C1 amended: when pair_split_image returns, the two sequences have the   *)
(* same length, every high-res tile's row and height is the low-res tile's *)
(* multiplied by highRes.h / lowRes.h, and its column and width is the     *)
(* low-res tile's multiplied by highRes.w / lowRes.w; whichever of x and y *)
(* is the smaller, and also when the whole images are returned.            *)
C1_ScaledPerAxis ==
    PairReturned("pair_split_image") =>
        /\ Len(tres.x) = Len(tres.y)
        /\ \A i \in 1..Len(LowTiles) :
            /\ ScaledBy(HighTiles[i].row, LowTiles[i].row, HighImage.h, LowImage.h)
            /\ ScaledBy(HighTiles[i].col, LowTiles[i].col, HighImage.w, LowImage.w)
            /\ ScaledBy(HighTiles[i].h, LowTiles[i].h, HighImage.h, LowImage.h)
            /\ ScaledBy(HighTiles[i].w, LowTiles[i].w, HighImage.w, LowImage.w)

(* pair_split_image returned several tiles of a pair whose y is the        *)
(* smaller image, at ratio 2, the last one away from the origin.           *)
C1_Witness ==
    /\ PairReturned("pair_split_image")
    /\ ty.h < tx.h
    /\ tx.h = 2 * ty.h
    /\ Len(tres.y) >= 2
    /\ tres.y[Len(tres.y)].row > 0
    /\ tres.x[Len(tres.x)].row = 2 * tres.y[Len(tres.y)].row

IntegerRatio == \E r \in 1..HighImage.h :
                    HighImage.h = r * LowImage.h /\ HighImage.w = r * LowImage.w

Ratio == HighImage.h \div LowImage.h

(* C2 as stated: for a pair with an integer ratio r, pair_crop_max crops   *)
(* the low-res image at the origin to min(h, maxSize) x min(w, maxSize)    *)
(* and the high-res image to r times that; 256x256 with 1024x1024 at       *)
(* maxSize 128 gives 128x128 and 512x512.                                  *)
C2_CropToMaxSize ==
    (top = "pair_crop_max" /\ IntegerRatio) =>
        /\ tres.status = "ok"
        /\ LowTiles = <<crop(0, 0, Min(LowImage.h, tmax), Min(LowImage.w, tmax))>>
        /\ HighTiles = <<crop(0, 0, Ratio * Min(LowImage.h, tmax), Ratio * Min(LowImage.w, tmax))>>
        /\ (tx = Image(256, 256) /\ ty = Image(1024, 1024) /\ tmax = 128) =>
               /\ tres.x = <<crop(0, 0, 128, 128)>>
               /\ tres.y = <<crop(0, 0, 512, 512)>>

(* the low-res size limit int(maxSize * (lowRes.h / highRes.h)) *)
LowLimit == IntMulScale(tmax, LowImage.h, HighImage.h)

(* C2 amended: for a pair with an integer ratio r, whenever pair_crop_max  *)
(* returns, the low-res image is cropped at the origin to                  *)
(* min(h, L) x min(w, L) with L = int(maxSize * (lowRes.h / highRes.h)),   *)
(* maxSize scaled down to the low-res side, and the high-res image to r    *)
(* times that; 256x256 with 1024x1024 at maxSize 128 gives 32x32 and       *)
(* 128x128.                                                                *)
C2_CropToScaledMaxSize ==
    (PairReturned("pair_crop_max") /\ IntegerRatio) =>
        /\ LowTiles = <<crop(0, 0, Min(LowImage.h, LowLimit), Min(LowImage.w, LowLimit))>>
        /\ HighTiles = <<crop(0, 0, Ratio * Min(LowImage.h, LowLimit),
                                    Ratio * Min(LowImage.w, LowLimit))>>
        /\ (tx = Image(256, 256) /\ ty = Image(1024, 1024) /\ tmax = 128) =>
               /\ tres.x = <<crop(0, 0, 32, 32)>>
               /\ tres.y = <<crop(0, 0, 128, 128)>>

C2_Witness ==
    /\ PairReturned("pair_crop_max")
    /\ tx = Image(256, 256) /\ ty = Image(1024, 1024) /\ tmax = 128
    /\ tres.x = <<crop(0, 0, 32, 32)>>
    /\ tres.y = <<crop(0, 0, 128, 128)>>

PairFunctions == {"pair_crop_max", "pair_split_image"}

(* |r_w - r_h| > 1e-5 with r_h = highRes.h / lowRes.h and                  *)
(* r_w = highRes.w / lowRes.w                                              *)
RatiosDiffer ==
    Abs(HighImage.w * LowImage.h - HighImage.h * LowImage.w) * 100000
        > LowImage.h * LowImage.w

(* |s_w - s_h| > 1e-5 with s_h = lowRes.h / highRes.h and                  *)
(* s_w = lowRes.w / highRes.w                                              *)
ScalesDiffer ==
    Abs(LowImage.w * HighImage.h - LowImage.h * HighImage.w) * 100000
        > HighImage.h * HighImage.w

(* C3 as stated: a pair whose high-over-low ratios r_w and r_h differ by   *)
(* more than 1e-5 makes pair_crop_max and pair_split_image fail with the   *)
(* scale mismatch and return no tiles.                                     *)
C3_RatioMismatchFails ==
    (top \in PairFunctions /\ RatiosDiffer) =>
        tres = Raised("ScaleMismatch")

(* C3 amended: a pair whose low-over-high scales s_w = lowRes.w/highRes.w  *)
(* and s_h = lowRes.h/highRes.h differ by more than 1e-5 makes             *)
(* pair_crop_max and pair_split_image fail with the scale mismatch and     *)
(* return no tiles, whatever max_size and split_step are.                  *)
C3_ScaleMismatchFails ==
    (top \in PairFunctions /\ ScalesDiffer) =>
        tres = Raised("ScaleMismatch")

(* pair_split_image refused a pair that is wider, relative to its height,  *)
(* on the low-res side                                                     *)
C3_Witness ==
    /\ top = "pair_split_image"
    /\ ScalesDiffer
    /\ LowImage.w * HighImage.h > LowImage.h * HighImage.w
    /\ tres.status = "ScaleMismatch"

WindowH == Min(ty.h, tmax)

WindowW == Min(ty.w, tmax)

StrideH == (WindowH * tstep) \div 4

StrideW == (WindowW * tstep) \div 4

TileRows == {r \in 0..(ty.h - WindowH) : r % StrideH = 0}

TileCols == {c \in 0..(ty.w - WindowW) : c % StrideW = 0}

(* C4: with both strides at least 1, split_image returns the image itself  *)
(* when it fits max_size, and otherwise exactly the window-sized tiles at  *)
(* every multiple of the stride up to dimension - window, rows by columns, *)
(* in row-major order; 300x300 at max_size 100 and step 0.5 gives the 25   *)
(* tiles at offsets 0, 50, 100, 150, 200.                                  *)
C4_SplitImageTiles ==
    (top = "split_image" /\ StrideH >= 1 /\ StrideW >= 1) =>
        /\ tres.status = "ok"
        /\ IF ty.h <= tmax /\ ty.w <= tmax
           THEN tres.y = <<Whole(ty)>>
           ELSE /\ Len(tres.y) = Cardinality(TileRows) * Cardinality(TileCols)
                /\ \A k \in 1..Len(tres.y) :
                    /\ tres.y[k].h = WindowH /\ tres.y[k].w = WindowW
                    /\ tres.y[k].row \in TileRows /\ tres.y[k].col \in TileCols
                /\ \A k \in 1..Len(tres.y), l \in 1..Len(tres.y) :
                    k < l => \/ tres.y[k].row < tres.y[l].row
                             \/ /\ tres.y[k].row = tres.y[l].row
                                /\ tres.y[k].col < tres.y[l].col
        /\ (ty = Image(300, 300) /\ tmax = 100 /\ tstep = 2) =>
               /\ Len(tres.y) = 25
               /\ {tres.y[k].row : k \in 1..Len(tres.y)} = {0, 50, 100, 150, 200}
               /\ {tres.y[k].col : k \in 1..Len(tres.y)} = {0, 50, 100, 150, 200}

C4_Witness ==
    /\ top = "split_image"
    /\ ty = Image(300, 300) /\ tmax = 100 /\ tstep = 2
    /\ Len(tres.y) = 25
    /\ tres.y[2] = crop(0, 50, 100, 100)
    /\ tres.y[25] = crop(200, 200, 100, 100)

(* C10: every tile pair_crop_max or pair_split_image returns has height    *)
(* and width at least 1, on both sides.                                    *)
C10_NoEmptyTile ==
    (top \in PairFunctions /\ tres.status = "ok") =>
        \A t \in {tres.x[k] : k \in 1..Len(tres.x)} \cup {tres.y[k] : k \in 1..Len(tres.y)} :
            t.h >= 1 /\ t.w >= 1

----------------------------------------------------------------------------
(* Properties of the loop of convert_data and of the pool. *)

(* the item of the iteration has an alpha channel on either side *)
AlphaCase(c) == c.y_meta.alpha \/ (c.x_meta # None /\ c.x_meta.alpha)

(* the target has an alpha channel, or the input has one and the keys of   *)
(* the two items agree                                                      *)
SkipCase(c) ==
    \/ c.y_meta.alpha
    \/ /\ c.x_meta # None
       /\ c.x_meta.alpha
       /\ filename2key(c.x_meta.filename) = filename2key(c.y_meta.filename)

IterationDone == pos' > pos

AllCompleted ==
    /\ pool_running = {}
    /\ pool_started = Len(pool_tasks)
    /\ \A t \in 1..Len(pool_tasks) :
         [dir |-> pool_tasks[t].dir, name |-> pool_tasks[t].name] \in written

(* after a failure at the item of place pos, no task of that item or of a  *)
(* later one is in the pool                                                 *)
NothingAfterFailure ==
    err # NoError =>
        \A t \in 1..Len(pool_tasks) :
            pool_tasks[t].name.basename < filename2key(y_files[pos])

(* C6: when convert_data has returned or raised, every task submitted has  *)
(* completed, and after a failure in the loop no task of the failing pair  *)
(* or of a later pair was submitted.                                        *)
C6_PoolDrainedOnExit ==
    /\ pc = "done" => AllCompleted
    /\ pc \in {"exit", "done"} => NothingAfterFailure

(* convert_data raised the tile-alignment assertion after it had submitted *)
(* the tiles of an earlier pair                                             *)
C6_Witness ==
    /\ pc = "done"
    /\ err = [kind |-> "AssertionError"]
    /\ Len(pool_tasks) > 0

----------------------------------------------------------------------------
(* Properties of main. *)

ListedKeys(c) == {filename2key(c.files[i]) : i \in 1..Len(c.files)}

MissingKeys == ListedKeys(target) \ ListedKeys(input)

NothingDone ==
    /\ \A d \in {"x", "y"} : odirs[d] # "fresh"
    /\ pos = 0 /\ xpos = 0 /\ cur = None
    /\ pool_tasks = <<>> /\ written = {}

(* C7: with arguments main accepts and both collections given, a key of    *)
(* the target collection that the input collection lacks makes the run     *)
(* fail with the missing-pair error naming such a key, before anything is  *)
(* done to the output directories, decoded, tiled or submitted.             *)
C7_MissingPairFailsFirst ==
    (/\ ArgsError(args, input) = "none"
     /\ input # None
     /\ MissingKeys # {})
    => /\ NothingDone
       /\ pc = "done" => /\ err.kind = "RuntimeError"
                         /\ err.key \in MissingKeys

DuplicateKeys(c) ==
    \E i \in 1..Len(c.files), j \in 1..Len(c.files) :
        i # j /\ filename2key(c.files[i]) = filename2key(c.files[j])

(* C8: a target collection with two sources of one key is never loaded     *)
(* with one source replaced by the other and neither an error nor a        *)
(* diagnostic.                                                              *)
C8_NoSilentReplacement ==
    (pc \in {"load_input", "pair_up"} /\ DuplicateKeys(target))
    => (err # NoError \/ stdout # <<>> \/ Len(y_data) = Len(target.files))

----------------------------------------------------------------------------
(* Properties of the loaders. *)

OneFullOtherEmpty ==
    \/ Full(x_queue) /\ Empty(y_queue)
    \/ Full(y_queue) /\ Empty(x_queue)

CanStep == CanPutX \/ CanPutY \/ CanGet

============================================================================
